---- MODULE Spec2Model ----
(***************************************************************************)
(* State-machine model of the SPiRiT protocol core (src/spirit.rs):        *)
(* setup, threshold registration, broadcast, diagnosis, verification and   *)
(* tracing.  The pairing group is modelled by the additive group of        *)
(* integers modulo a small prime; the external credential and proof        *)
(* primitives (crate::tACT, crate::pedersen) are modelled at the interface *)
(* the protocol core uses.                                                 *)
(***************************************************************************)
EXTENDS Integers, FiniteSets, Sequences, TLC

(* ------------------------------ bounds --------------------------------- *)
\* epochs are 1..MaxEpoch
MaxEpoch == 2
\* thresholds and the length of issuer lists are drawn up to MaxIssuers
MaxIssuers == 2
MaxProcs == 2

(* ------------------------- value domains -------------------------------- *)
\* order of the (additive) group standing for G1G2 and of the scalar field
GroupOrder == 11
\* user identities id_u
Ids == {7}
\* blinding randomness of the commitment made by the external register
Rands == {0, 1}
\* salts drawn by spirit_broadcast
Salts == {0, 1}
Epochs == 1..MaxEpoch

(* ------------------------------ PRF ------------------------------------- *)
RECURSIVE Pow(_, _)
Pow(b, e) == IF e = 0 THEN 1 ELSE (b * Pow(b, e - 1)) % GroupOrder

\* hash_with_domain_separation(i, "PRF-domain"): a fixed map into the group
hash_with_domain_separation(i) == Pow(3, i)

\* NPR PRF: H(i)^k, written additively in the source (hashed_i * k)
prf(k, i) == (hash_with_domain_separation(i) * k) % GroupOrder

\* the pseudonyms of the user (secret 1) and one pseudonym of another user
ElIDs == {prf(1, i) : i \in Epochs} \cup {prf(2, 1)}

(* ----------------- external credential primitive (tACT) ----------------- *)
\* Pedersen commitment made by register(id_u, pp): value id*G + r*H
Commit(id, r) == (id + 3 * r) % GroupOrder

Cms == {Commit(id, r) : id \in Ids, r \in Rands}

\* a signature is a signature on a commitment; valid when it is the
\* threshold signature of the issuers' shared key
Sig(cm, valid) == [msg |-> cm, valid |-> valid]

\* tissue(blind_request, issuer, pp): Err, a valid partial blind token, or a
\* partial blind token that is not a share of the signature
Outcomes == {"ok", "err", "bad"}

\* variant: every issuer of the list is asked, not only the first k
Take_all(s, k) == s

\* the first min(k, Len(s)) entries of s (Iterator::take)
Take(s, k) == SubSeq(s, 1, IF k < Len(s) THEN k ELSE Len(s))

\* aggregate_unblind(blind_tokens, rand, pp): the token is the threshold
\* signature iff at least t partial tokens (of the list's distinct issuers)
\* were aggregated and every one of them is a valid share
aggregate_unblind(blind_tokens, cm, t) ==
    LET good == \A j \in 1..Len(blind_tokens) : blind_tokens[j].good
    IN  [s |-> Sig(cm, good /\ Len(blind_tokens) >= t)]

\* verify(token, prove(token, rand, pp), blind_request, pp).is_ok()
verify(token, cm) == token.s.msg = cm /\ token.s.valid

(* --------------------------- tokens, reports ---------------------------- *)
\* Token = (Commitment, Signature)
AllTokens == {<<c, Sig(c, v)>> : c \in Cms, v \in BOOLEAN}
NoToken == <<0, Sig(0, FALSE)>>

\* Proof2PK::zk_proof(cmk.0, token_sig.0, el_id): a proof of knowledge for
\* the commitment value, built over the disclosed element
zk_proof(cmv, el) == [cm |-> cmv, el |-> el]
\* a proof that verifies against no commitment
BadProof == [cm |-> 0, el |-> 0]
Proofs == {zk_proof(c, e) : c \in Cms, e \in ElIDs} \cup {BadProof}

\* Proof2PK::zk_verify(cmk.0, pi_r)
zk_verify(cmv, pi_r) == pi_r.cm = cmv

(* ------------------------------ state ----------------------------------- *)
VARIABLES
    pp,        \* public parameters: [state, t]; the core reads only pp.t
    t_rgstr,   \* the token registry (HashSet<Token>)
    cp,        \* the verifier's confirmed-exposed set (HashSet<ElID>)
    prv,       \* the user's secret PRF key
    t_el,      \* the user's exposure table (HashMap<ElID, Scalar>)
    last,      \* the most recent call: its inputs' relevant facts and result
    calls      \* the spirit_register calls running side by side, per caller

vars == <<pp, t_rgstr, cp, prv, t_el, last, calls>>

\* the record of a call.  op: the operation; ok: it returned Some / accepted /
\* alarm / setup returned; the other fields depend on op.
\* spirit_setup: t (the threshold asked for), args (what was passed to the
\* external setup, empty if it was not called).
\* spirit_register: tok (the Token), stage (where it stopped), nvalid (valid
\* partial tokens collected), willing (issuers of the list that issue a valid
\* one), len (the list's length), contacted (issuers asked), asked (their
\* positions in call order), firstErr (see FirstErr), firstT (the first
\* t issuers all issue a valid one), had (the Token was in the registry before).
\* spirit_broadcast: el, epoch, salt, had (the table had the ElID before).
\* spirit_diagnosis: tok, el, pi (the report), tr (the pseudonyms computed).
\* spirit_verify: el, inReg, proofOK (the two tests of line 122), bound (the
\* proof was built over the report's ElID), had (the ElID was a member
\* before), ret (the set returned), e2e (the report is the one the preceding
\* spirit_diagnosis returned), tr (that diagnosis's pseudonyms).
\* spirit_trace: cnt, limit.
\* a concurrent spirit_register that returned: tok, proc (the caller).
NoCall == [op |-> "none", ok |-> FALSE]

\* the callers that run spirit_register side by side on the shared registry.
\* A call is idle (not started), running (it holds the registry reference;
\* reg is the registry as the call leaves it, ok and tok what it returns) or
\* done (returned)
Procs == 1..MaxProcs
Idle == [pc |-> "idle", ok |-> FALSE, tok |-> NoToken, reg |-> {}]

\* the exposure table as a set of <<ElID, salt>> pairs with one pair per key
EmptyTable == {}
HasKey(tbl, k) == \E p \in tbl : p[1] = k
MapInsert(tbl, k, v) == {p \in tbl : p[1] # k} \cup {<<k, v>>}

Init ==
    /\ pp = [state |-> "unset", t |-> 0]
    /\ t_rgstr = {}
    /\ cp = {}
    /\ prv = 1
    /\ t_el = EmptyTable
    /\ last = NoCall
    /\ calls = [p \in Procs |-> Idle]

\* a verifier that starts from a confirmed set it was handed
InitSeeded ==
    /\ pp = [state |-> "unset", t |-> 0]
    /\ t_rgstr = {}
    /\ cp \in SUBSET ElIDs
    /\ prv = 1
    /\ t_el = EmptyTable
    /\ last = NoCall
    /\ calls = [p \in Procs |-> Idle]

(* ------------------------------ setup ----------------------------------- *)
\* usize arithmetic is modulo 2^w; a 16-bit word stands for the machine word
UsizeModulus == 65536

\* tACT_setup(num_issuers, n, t, t_sub, aux).is_ok(): the threshold
\* parameters are consistent
tACT_setup(num_issuers, n, t, t_sub, aux) ==
    /\ 1 <= t
    /\ t <= n
    /\ t <= num_issuers
    /\ t_sub < t

\* the values `t - 1` can take: none under checked arithmetic when t = 0
\* (the subtraction panics), the wrapped value under wrapping arithmetic
\* variant: the subtraction is made on signed integers
sub_one_signed(t) == {[panic |-> FALSE, v |-> t - 1]}

\* line 24, `t - 1` on usize: exact for t >= 1; for t = 0 the build decides
\* between a panic (overflow checks on) and the wrapped value
sub_one(t) ==
    IF t >= 1 THEN {[panic |-> FALSE, v |-> t - 1]}
    ELSE {[panic |-> TRUE, v |-> 0],
          [panic |-> FALSE, v |-> (t - 1) % UsizeModulus]}

spirit_setup ==
    /\ pp.state = "unset"
    /\ \E t \in 0..(MaxIssuers + 1), n \in 0..MaxIssuers,
          num_issuers \in 0..MaxIssuers :
        \E d \in sub_one(t) :
            \/ /\ ~d.panic
               /\ tACT_setup(num_issuers, n, t, d.v, 1)
               /\ pp' = [state |-> "ready", t |-> t]
               /\ t_rgstr' = {}
               /\ last' = [op |-> "setup", ok |-> TRUE, t |-> t,
                           args |-> <<num_issuers, n, t, d.v, 1>>]
            \/ /\ ~d.panic
               /\ ~tACT_setup(num_issuers, n, t, d.v, 1)
               /\ pp' = [state |-> "aborted", t |-> 0]
               /\ t_rgstr' = t_rgstr
               /\ last' = [op |-> "setup", ok |-> FALSE, t |-> t,
                           args |-> <<num_issuers, n, t, d.v, 1>>]
            \/ /\ d.panic
               /\ pp' = [state |-> "aborted", t |-> 0]
               /\ t_rgstr' = t_rgstr
               /\ last' = [op |-> "setup", ok |-> FALSE, t |-> t,
                           args |-> <<>>]
    /\ UNCHANGED <<calls, cp, prv, t_el>>

(* --------------------------- registration ------------------------------- *)
\* the issuer list handed to spirit_register, position by position: what
\* tissue returns for the issuer at that position (the issuers of a list
\* are distinct)
IssuerLists == UNION {[1..k -> Outcomes] : k \in 0..MaxIssuers}

\* lines 53-57: ask the issuers of `todo` in order, stop at the first
\* failure.  contacted = the number of issuers asked, failed = an issuer
\* returned Err
\* variant: every issuer of `todo` is asked, a failure is noticed at the end
collect_all(todo, acc) ==
    [failed |-> \E j \in 1..Len(todo) : todo[j] = "err",
     blind_tokens |-> [j \in 1..Len(todo) |->
                          [issuer |-> j, good |-> todo[j] = "ok"]],
     contacted |-> acc.contacted + Len(todo)]

RECURSIVE collect(_, _)
collect(todo, acc) ==
    IF Len(todo) = 0
    THEN [failed |-> FALSE, blind_tokens |-> acc.blind_tokens,
          contacted |-> acc.contacted]
    ELSE IF Head(todo) = "err"
         THEN [failed |-> TRUE, blind_tokens |-> acc.blind_tokens,
               contacted |-> acc.contacted + 1]
         ELSE collect(Tail(todo),
                      [blind_tokens |-> Append(acc.blind_tokens,
                           [issuer |-> acc.contacted + 1,
                            good |-> Head(todo) = "ok"]),
                       contacted |-> acc.contacted + 1])

\* variant: the registry is rewritten to hold the new Token alone
finish_registration_replace(reg, cm, blind_tokens, t) ==
    LET token == aggregate_unblind(blind_tokens, cm, t)
        final_token == <<cm, token.s>>
    IN  IF ~verify(token, cm)
        THEN [ok |-> FALSE, tok |-> NoToken, reg |-> reg]
        ELSE [ok |-> TRUE, tok |-> final_token, reg |-> {final_token}]

\* variant: the Token is inserted before the self-verification
finish_registration_early(reg, cm, blind_tokens, t) ==
    LET token == aggregate_unblind(blind_tokens, cm, t)
        final_token == <<cm, token.s>>
    IN  IF ~verify(token, cm)
        THEN [ok |-> FALSE, tok |-> NoToken, reg |-> reg \cup {final_token}]
        ELSE [ok |-> TRUE, tok |-> final_token, reg |-> reg \cup {final_token}]

\* variant: the self-verification is skipped
finish_registration_noverify(reg, cm, blind_tokens, t) ==
    LET token == aggregate_unblind(blind_tokens, cm, t)
        final_token == <<cm, token.s>>
    IN  [ok |-> TRUE, tok |-> final_token, reg |-> reg \cup {final_token}]

\* lines 60-74: aggregate, self-verify, and only then publish
finish_registration(reg, cm, blind_tokens, t) ==
    LET token == aggregate_unblind(blind_tokens, cm, t)
        final_token == <<cm, token.s>>
    IN  IF ~verify(token, cm)
        THEN [ok |-> FALSE, tok |-> NoToken, reg |-> reg]
        ELSE [ok |-> TRUE, tok |-> final_token, reg |-> reg \cup {final_token}]

\* number of valid partial tokens among those collected
Valid(blind_tokens) ==
    Cardinality({j \in 1..Len(blind_tokens) : blind_tokens[j].good})

\* the positions of the issuers tissue was called on, in call order: those
\* that answered, then the one that failed
Asked(c) ==
    [j \in 1..Len(c.blind_tokens) |-> c.blind_tokens[j].issuer]
        \o (IF c.failed THEN <<c.contacted>> ELSE <<>>)

\* the whole of spirit_register; early = "register" or "token_request" when
\* that external call fails, "none" when both succeed
register_run(id_u, r, early, issuers, t, reg) ==
    LET none(st, c, nv, a) == [ok |-> FALSE, tok |-> NoToken, reg |-> reg,
                               contacted |-> c, nvalid |-> nv, stage |-> st,
                               asked |-> a]
    IN  IF early = "register" THEN none("register", 0, 0, <<>>)
        ELSE IF early = "token_request"
        THEN none("token_request", 0, 0, <<>>)
        ELSE LET cm == Commit(id_u, r)
                 c  == collect(Take(issuers, t),
                               [blind_tokens |-> <<>>, contacted |-> 0])
             IN  IF c.failed
                 THEN none("tissue", c.contacted, Valid(c.blind_tokens),
                           Asked(c))
                 ELSE LET f == finish_registration(reg, cm, c.blind_tokens, t)
                      IN  [ok |-> f.ok, tok |-> f.tok, reg |-> f.reg,
                           contacted |-> c.contacted,
                           nvalid |-> Valid(c.blind_tokens),
                           stage |-> IF f.ok THEN "done" ELSE "verify",
                           asked |-> Asked(c)]

\* number of issuers of the list that issue a valid partial token
Willing(issuers) == Cardinality({j \in 1..Len(issuers) : issuers[j] = "ok"})

\* position of the first issuer of the list whose issuance fails, 0 if none
FirstErr(issuers) ==
    LET bad == {j \in 1..Len(issuers) : issuers[j] = "err"}
    IN  IF bad = {} THEN 0 ELSE CHOOSE j \in bad : \A k \in bad : j <= k

\* the first t issuers of the list exist and each issues a valid partial token
FirstTValid(issuers, t) ==
    /\ Len(issuers) >= t
    /\ \A j \in 1..t : issuers[j] = "ok"

spirit_register ==
    /\ pp.state = "ready"
    /\ \E id_u \in Ids, r \in Rands,
          early \in {"register", "token_request", "none"},
          issuers \in IssuerLists :
        /\ early # "none" => issuers = <<>>
        /\ LET res == register_run(id_u, r, early, issuers, pp.t, t_rgstr)
           IN  /\ t_rgstr' = res.reg
               /\ last' = [op |-> "register", ok |-> res.ok,
                           tok |-> res.tok, stage |-> res.stage,
                           nvalid |-> res.nvalid,
                           willing |-> Willing(issuers),
                           len |-> Len(issuers),
                           contacted |-> res.contacted,
                           asked |-> res.asked,
                           firstErr |-> FirstErr(issuers),
                           firstT |-> FirstTValid(issuers, pp.t),
                           had |-> res.tok \in t_rgstr]
    /\ UNCHANGED <<calls, pp, cp, prv, t_el>>

(* ---------------------- registrations side by side ---------------------- *)
\* variant: the registry is handed out without exclusion
exclusive_shared(p) == TRUE

\* line 42, `t_rgstr: &mut HashSet<Token>`: a call holds the only reference
\* to the registry from entry to return, so no other call is running
exclusive(p) == \A q \in Procs \ {p} : calls[q].pc # "running"

\* lines 38-66: caller p enters spirit_register with the registry reference
\* and runs it on the registry that reference shows
register_enter(p) ==
    /\ pp.state = "ready"
    /\ calls[p].pc = "idle"
    /\ exclusive(p)
    /\ \E id_u \in Ids, r \in Rands,
          early \in {"register", "token_request", "none"},
          issuers \in IssuerLists :
        /\ early # "none" => issuers = <<>>
        /\ LET res == register_run(id_u, r, early, issuers, pp.t, t_rgstr)
           IN  calls' = [calls EXCEPT ![p] =
                            [pc |-> "running", ok |-> res.ok,
                             tok |-> res.tok, reg |-> res.reg]]
    /\ UNCHANGED <<pp, t_rgstr, cp, prv, t_el, last>>

\* lines 69-74: the registry is left as the call made it and the call returns
register_return(p) ==
    /\ calls[p].pc = "running"
    /\ t_rgstr' = calls[p].reg
    /\ calls' = [calls EXCEPT ![p].pc = "done"]
    /\ last' = [op |-> "return", ok |-> calls[p].ok, tok |-> calls[p].tok,
                proc |-> p]
    /\ UNCHANGED <<pp, cp, prv, t_el>>

(* ----------------------------- broadcast -------------------------------- *)
spirit_broadcast ==
    /\ pp.state = "ready"
    /\ \E i \in Epochs, es_i \in Salts :
        LET el_id == prf(prv, i)
        IN  /\ t_el' = MapInsert(t_el, el_id, es_i)
            /\ last' = [op |-> "broadcast", ok |-> TRUE, el |-> el_id,
                        epoch |-> i, salt |-> es_i,
                        had |-> HasKey(t_el, el_id)]
    /\ UNCHANGED <<calls, pp, t_rgstr, cp, prv>>

(* ----------------------------- diagnosis -------------------------------- *)
\* line 102: the pseudonyms of the contact epochs
contact_elids(k, epochs) == {prf(k, i) : i \in epochs}

\* lines 105-108 name an el_id that the function never binds: the disclosed
\* pseudonym is any single one of those computed (any ElID when the contact
\* set is empty)
disclosed(tr) == IF tr = {} THEN ElIDs ELSE tr

spirit_diagnosis ==
    /\ pp.state = "ready"
    /\ \E token \in t_rgstr, epochs \in SUBSET Epochs :
        LET tr == contact_elids(prv, epochs)
        IN  \E el_id \in disclosed(tr) :
                last' = [op |-> "diagnosis", ok |-> TRUE, tok |-> token,
                         el |-> el_id, pi |-> zk_proof(token[1], el_id),
                         tr |-> tr]
    /\ UNCHANGED <<calls, pp, t_rgstr, cp, prv, t_el>>

(* ---------------------------- verification ------------------------------ *)
\* variant: the registry is not consulted
bit_noreg(token, pi_r, reg) == zk_verify(token[1], pi_r)

\* line 122: registry membership and the disclosure proof
bit(token, pi_r, reg) == token \in reg /\ zk_verify(token[1], pi_r)

\* variant: the ElID is inserted whatever the bit
confirm_any(b, el_id, set) == set \cup {el_id}

\* variant: a rejected report empties the set
confirm_clear(b, el_id, set) ==
    IF b /\ el_id \in set THEN set \cup {el_id} ELSE {}

\* variant: an accepted ElID is inserted, a rejected one removed
confirm_insert(b, el_id, set) ==
    IF b THEN set \cup {el_id} ELSE set \ {el_id}

\* lines 129-133: the update of the confirmed-exposed set
confirm(b, el_id, set) ==
    IF b /\ el_id \in set THEN set \cup {el_id} ELSE set \ {el_id}

\* variant: a registry miss returns before the set is touched
verify_run_leak(token, pi_r, el_id, reg, set) ==
    IF token \notin reg THEN [ok |-> FALSE, ret |-> set]
    ELSE LET b == zk_verify(token[1], pi_r)
         IN  [ok |-> b, ret |-> confirm(b, el_id, set)]

\* lines 117-136: the accept bit and the set that is returned and left behind
verify_run(token, pi_r, el_id, reg, set) ==
    LET b == bit(token, pi_r, reg)
    IN  [ok |-> b, ret |-> confirm(b, el_id, set)]

\* the report is the one the preceding spirit_diagnosis call returned
FromDiagnosis(token, pi_r, el_id) ==
    /\ last.op = "diagnosis"
    /\ last.tok = token
    /\ last.pi = pi_r
    /\ last.el = el_id

\* variant: a rejected report takes its Token out of the registry
spirit_verify_drop ==
    /\ pp.state = "ready"
    /\ \E token \in AllTokens, pi_r \in Proofs, el_id \in ElIDs :
        LET res == verify_run(token, pi_r, el_id, t_rgstr, cp)
            e2e == FromDiagnosis(token, pi_r, el_id)
        IN  /\ cp' = res.ret
            /\ t_rgstr' = IF res.ok THEN t_rgstr ELSE t_rgstr \ {token}
            /\ last' = [op |-> "verify", ok |-> res.ok, el |-> el_id,
                        inReg |-> token \in t_rgstr,
                        proofOK |-> zk_verify(token[1], pi_r),
                        bound |-> (pi_r.el = el_id),
                        had |-> el_id \in cp,
                        ret |-> res.ret,
                        e2e |-> e2e,
                        tr |-> IF e2e THEN last.tr ELSE {}]
    /\ UNCHANGED <<calls, pp, prv, t_el>>

spirit_verify ==
    /\ pp.state = "ready"
    /\ \E token \in AllTokens, pi_r \in Proofs, el_id \in ElIDs :
        LET res == verify_run(token, pi_r, el_id, t_rgstr, cp)
            e2e == FromDiagnosis(token, pi_r, el_id)
        IN  /\ cp' = res.ret
            /\ last' = [op |-> "verify", ok |-> res.ok, el |-> el_id,
                        inReg |-> token \in t_rgstr,
                        proofOK |-> zk_verify(token[1], pi_r),
                        bound |-> (pi_r.el = el_id),
                        had |-> el_id \in cp,
                        ret |-> res.ret,
                        e2e |-> e2e,
                        tr |-> IF e2e THEN last.tr ELSE {}]
    /\ UNCHANGED <<calls, pp, t_rgstr, prv, t_el>>

(* ------------------------------ tracing --------------------------------- *)
\* variant: the entries of the table are counted, matched or not
int_cnt_table(cf, tbl) == Cardinality(tbl)

\* lines 145-152: the counting loop over the confirmed set
RECURSIVE int_cnt(_, _)
int_cnt(cf, tbl) ==
    IF cf = {} THEN 0
    ELSE LET el_id == CHOOSE e \in cf : TRUE
         IN  (IF HasKey(tbl, el_id) THEN 1 ELSE 0) + int_cnt(cf \ {el_id}, tbl)

\* variant: the alarm needs more matches than the limit
alarm_bit_gt(n, exposure_limit) == n > exposure_limit

\* line 155
alarm_bit(n, exposure_limit) == n >= exposure_limit

spirit_trace ==
    /\ pp.state = "ready"
    /\ \E exposure_limit \in 0..(MaxEpoch + 1) :
        LET n == int_cnt(cp, t_el)
        IN  last' = [op |-> "trace", ok |-> alarm_bit(n, exposure_limit),
                     cnt |-> n, limit |-> exposure_limit]
    /\ UNCHANGED <<calls, pp, t_rgstr, cp, prv, t_el>>

(* --------------------------- specification ------------------------------ *)
Next ==
    \/ spirit_setup
    \/ spirit_register
    \/ spirit_broadcast
    \/ spirit_diagnosis
    \/ spirit_verify
    \/ spirit_trace

Spec == Init /\ [][Next]_vars

\* registration and verification, the verifier starting from any confirmed
\* set; broadcast, diagnosis and tracing change neither the registry nor the
\* confirmed set
NextSeeded ==
    \/ spirit_setup
    \/ spirit_register
    \/ spirit_verify

SpecSeeded == InitSeeded /\ [][NextSeeded]_vars

\* setup and registration alone: no other operation reads pp or writes the
\* registry
NextReg ==
    \/ spirit_setup
    \/ spirit_register

SpecReg == Init /\ [][NextReg]_vars

\* broadcast and tracing against a confirmed set the tracer was handed
NextTrace ==
    \/ spirit_setup
    \/ spirit_broadcast
    \/ spirit_trace

SpecTrace == InitSeeded /\ [][NextTrace]_vars

\* setup, then the callers registering side by side
NextConc ==
    \/ spirit_setup
    \/ \E p \in Procs : register_enter(p)
    \/ \E p \in Procs : register_return(p)

SpecConc == Init /\ [][NextConc]_vars

(* ============================ verification ============================== *)

\* C1: spirit_verify accepts a report if and only if its Token is in the
\* registry and its proof verifies against the Token's commitment; a report
\* whose Token is not in the registry is rejected whatever the proof.
C1_AcceptIff ==
    last.op = "verify" =>
        /\ last.ok <=> (last.inReg /\ last.proofOK)
        /\ ~last.inReg => ~last.ok

\* a report with a registered Token and a valid proof has been accepted
C1_Witness ==
    /\ last.op = "verify"
    /\ last.ok
    /\ last.inReg
    /\ last.proofOK

\* C2 (as claimed): after an accepted report its ElID is in the confirmed
\* set that the call returns and leaves behind.
C2_AcceptedIsConfirmed ==
    (last.op = "verify" /\ last.ok) => (last.el \in last.ret /\ last.el \in cp)

\* C3: starting from the empty set, an ElID enters the confirmed set only in
\* a spirit_verify call whose report carries it, has its Token in the
\* registry and a proof that verifies; a rejected report adds nothing.
C3_OnlyAcceptedEnter ==
    /\ cp = {}
    /\ [][\A e \in cp' :
             \/ e \in cp
             \/ /\ last'.op = "verify"
                /\ last'.ok /\ last'.inReg /\ last'.proofOK
                /\ last'.el = e]_vars

\* a rejected report has been verified after a registration succeeded, and
\* its ElID is not in the set
C3_Witness ==
    /\ last.op = "verify"
    /\ ~last.ok
    /\ t_rgstr # {}
    /\ last.el \notin cp

\* C4 (as claimed): a report whose registered Token and valid proof were
\* built over one ElID and whose disclosed ElID was replaced by one that the
\* user's secret did not generate is rejected, and that ElID is not confirmed.
C4_SwappedElIDRejected ==
    (/\ last.op = "verify"
     /\ last.inReg /\ last.proofOK
     /\ ~last.bound
     /\ last.el \notin contact_elids(prv, Epochs))
        => (~last.ok /\ last.el \notin cp)

\* C5 (as claimed): a rejected spirit_verify call removes no ElID from the
\* confirmed set.
C5_RejectKeepsMembers ==
    [][(last'.op = "verify" /\ ~last'.ok) => cp \subseteq cp']_vars

(* ============================ registration ============================== *)

\* C6 (as claimed): the registry never gets smaller and every successful
\* spirit_register makes it larger by exactly one.
C6_SuccessAddsOne ==
    [][/\ Cardinality(t_rgstr') >= Cardinality(t_rgstr)
       /\ (last'.op = "register" /\ last'.ok)
              => Cardinality(t_rgstr') = Cardinality(t_rgstr) + 1]_vars

\* C6 (amended): the registry never gets smaller; a successful
\* spirit_register makes it larger by exactly one when its Token is not yet
\* in the registry and leaves it as it was when an equal Token already is.
C6_SuccessAddsOneIfNew ==
    [][/\ Cardinality(t_rgstr') >= Cardinality(t_rgstr)
       /\ (last'.op = "register" /\ last'.ok) =>
              IF last'.tok \in t_rgstr
              THEN t_rgstr' = t_rgstr
              ELSE Cardinality(t_rgstr') = Cardinality(t_rgstr) + 1]_vars

\* a registration succeeded with a Token equal to one already registered
C6_Witness ==
    /\ last.op = "register"
    /\ last.ok
    /\ last.had
    /\ Cardinality(t_rgstr) = 2

\* C7: a spirit_register call that returns None, at whichever step it fails,
\* leaves the registry as it was.
C7_FailureLeavesRegistry ==
    [][(last'.op = "register" /\ ~last'.ok) => t_rgstr' = t_rgstr]_vars

\* a registration failed at the self-verification, with a non-empty registry
C7_Witness ==
    /\ last.op = "register"
    /\ ~last.ok
    /\ last.stage = "verify"
    /\ t_rgstr # {}

\* C8: a spirit_register call that collects fewer than t valid partial blind
\* tokens returns None and leaves the registry as it was.
C8_BelowThresholdFails ==
    [][(last'.op = "register" /\ last'.nvalid < pp.t)
           => (~last'.ok /\ last'.tok = NoToken /\ t_rgstr' = t_rgstr)]_vars

\* fewer than t issuers were supplied, each issued a valid partial token,
\* and the call failed
C8_Witness ==
    /\ last.op = "register"
    /\ last.len >= 1
    /\ last.len < pp.t
    /\ last.nvalid = last.len
    /\ ~last.ok

\* C9 (as claimed): when at least t issuers of the list issue successfully,
\* at whichever positions, spirit_register returns Some and publishes.
C9_AnyPositionsSucceed ==
    (/\ last.op = "register"
     /\ last.stage \notin {"register", "token_request"}
     /\ last.willing >= pp.t)
        => (last.ok /\ last.tok \in t_rgstr)

\* C9 (amended): when the external register and token_request succeed and
\* each of the first t issuers of the list issues a valid partial token,
\* spirit_register returns Some and its Token is in the registry.
C9_FirstTSucceed ==
    (/\ last.op = "register"
     /\ last.stage \notin {"register", "token_request"}
     /\ last.firstT)
        => (last.ok /\ last.tok \in t_rgstr)

\* a registration succeeded on a list longer than t whose later issuer does
\* not issue a valid partial token
C9_Witness ==
    /\ last.op = "register"
    /\ last.firstT
    /\ last.len > pp.t
    /\ last.willing < last.len
    /\ last.ok

\* C10: the registry is append-only over all operations: a step changes it
\* only if it is a successful spirit_register, and then by adding its Token;
\* no Token is ever removed.
C10_RegistryAppendOnly ==
    [][/\ t_rgstr \subseteq t_rgstr'
       /\ t_rgstr' # t_rgstr =>
              /\ last'.op = "register"
              /\ last'.ok
              /\ t_rgstr' = t_rgstr \cup {last'.tok}
              /\ Cardinality(t_rgstr') = Cardinality(t_rgstr) + 1]_vars

\* two Tokens are registered and the last call was a rejected verification
\* of a report with a registered Token
C10_Witness ==
    /\ Cardinality(t_rgstr) = 2
    /\ last.op = "verify"
    /\ last.inReg
    /\ ~last.ok

(* ========================= broadcast and tracing ======================== *)

\* C11 (as claimed): an entry of the exposure table is never overwritten:
\* the (ElID, salt) pair recorded by the first broadcast of an epoch is still
\* in the table after every later broadcast, also of the same epoch.
C11_EntriesNeverOverwritten ==
    [][\A p \in t_el : p \in t_el']_vars

\* the keys of an exposure table
Keys(tbl) == {p[1] : p \in tbl}

\* C12: spirit_trace returns as match_count the number of ElIDs that are keys
\* of the exposure table and members of the confirmed set, and as alarm
\* match_count >= exposure_limit; it changes neither the set nor the table.
C12_TraceCountsIntersection ==
    /\ [](last.op = "trace" =>
              /\ last.cnt = Cardinality(Keys(t_el) \cap cp)
              /\ last.ok <=> (last.cnt >= last.limit))
    /\ [][last'.op = "trace" => (cp' = cp /\ t_el' = t_el)]_vars

\* a trace that matched one of two table entries against a confirmed set of
\* at least two ElIDs and did not alarm
C12_Witness ==
    /\ last.op = "trace"
    /\ last.cnt = 1
    /\ Cardinality(t_el) = 2
    /\ Cardinality(cp) >= 2
    /\ ~last.ok

\* C16: for a fixed confirmed set and table, a spirit_trace that alarms with
\* its limit alarms with every smaller limit, and with limit 0 it alarms.
C16_AlarmMonotone ==
    last.op = "trace" =>
        /\ last.limit = 0 => last.ok
        /\ last.ok =>
               \A k1 \in 0..last.limit : alarm_bit(int_cnt(cp, t_el), k1)

\* an alarm with limit 2 or more
C16_Witness ==
    /\ last.op = "trace"
    /\ last.ok
    /\ last.limit >= 2

(* ============================== end to end ============================== *)

\* C13 (as claimed): after setup, a successful registration, broadcasts, a
\* diagnosis over contact epochs that were broadcast and the verification of
\* its report from an empty confirmed set, the set holds the pseudonym of
\* every contact epoch and of no other broadcast epoch.
C13_EndToEnd ==
    (/\ last.op = "verify"
     /\ last.e2e
     /\ last.tr \subseteq Keys(t_el))
        => /\ \A e \in last.tr : e \in cp
           /\ \A e \in Keys(t_el) \ last.tr : e \notin cp

\* C14: a rejected spirit_verify returns the same accept bit and the same
\* set as every other rejected run on the same confirmed set and ElID,
\* whether the Token is missing from the registry (with a proof that
\* verifies) or the proof fails (with a registered Token), or both.
C14_RejectionIndistinguishable ==
    [][(last'.op = "verify" /\ ~last'.ok) =>
           \A token \in AllTokens :
           \A pi_r \in {BadProof, zk_proof(token[1], last'.el)} :
               LET other == verify_run(token, pi_r, last'.el, t_rgstr, cp)
               IN  ~other.ok =>
                       (other.ok = last'.ok /\ other.ret = last'.ret)]_vars

\* a report with a registered Token and a failing proof was rejected, its
\* ElID a member before the call
C14_Witness ==
    /\ last.op = "verify"
    /\ ~last.ok
    /\ last.inReg
    /\ ~last.proofOK
    /\ last.had

(* ====================== issuers asked by registration =================== *)

FirstN(k) == [j \in 1..k |-> j]
Min(a, b) == IF a <= b THEN a ELSE b

\* C17: spirit_register calls tissue on the issuers of the list in input
\* order and on none beyond position t.  When an issuer among the first t
\* fails, it is the last one asked and the call returns None; when none
\* fails, the first t issuers (the whole list if it is shorter) are asked.
C17_FirstTInOrder ==
    (last.op = "register" /\ last.stage \notin {"register", "token_request"})
        => /\ Len(last.asked) <= pp.t
           /\ last.contacted = Len(last.asked)
           /\ IF last.firstErr \in 1..pp.t
              THEN /\ last.asked = FirstN(last.firstErr)
                   /\ ~last.ok
                   /\ last.stage = "tissue"
              ELSE last.asked = FirstN(Min(pp.t, last.len))

\* the first of two issuers failed, the threshold is two: one issuer asked
C17_Witness ==
    /\ last.op = "register"
    /\ pp.t = 2
    /\ last.len = 2
    /\ last.firstErr = 1
    /\ last.asked = <<1>>
    /\ last.willing = 1

(* ==================== frame of the confirmed-exposed set ================ *)

\* C18: a spirit_verify call, accepted or rejected, leaves the membership
\* of every ElID other than the one of its report as it was, and returns
\* the set it leaves in place.
C18_OnlyOwnElIDChanges ==
    [][last'.op = "verify" =>
           /\ \A e \in ElIDs \ {last'.el} : (e \in cp') <=> (e \in cp)
           /\ last'.ret = cp']_vars

\* a rejected report removed its own ElID and other members stayed
C18_Witness ==
    /\ last.op = "verify"
    /\ ~last.ok
    /\ last.had
    /\ cp # {}
    /\ last.el \notin cp

\* C19: spirit_verify never enlarges the confirmed-exposed set: the set
\* after a call is a subset of the set before, and the ElID of the report
\* is a member afterwards exactly when it was one before and the report is
\* accepted; from the empty set the set stays empty.
C19_NeverEnlarges ==
    [][last'.op = "verify" =>
           /\ cp' \subseteq cp
           /\ (last'.el \in cp') <=> (last'.el \in cp /\ last'.ok)
           /\ cp = {} => cp' = {}]_vars

\* an accepted report whose ElID was not a member: it is not one afterwards
C19_Witness ==
    /\ last.op = "verify"
    /\ last.ok
    /\ ~last.had
    /\ last.el \notin cp
    /\ cp # {}

(* ============================ setup arithmetic ========================== *)

\* C20: spirit_setup hands the external setup (num_issuers, n, t, t - 1, 1)
\* for every t >= 1; for t = 0 the subtraction underflows, the call either
\* aborts before the external setup or passes 2^w - 1, never -1; whenever
\* setup returns, the registry is empty.
C20_SubThresholdUnsigned ==
    last.op = "setup" =>
        /\ IF Len(last.args) = 5
           THEN /\ last.args[3] = last.t
                /\ last.args[5] = 1
                /\ last.args[4] \in 0..(UsizeModulus - 1)
                /\ last.t >= 1 => last.args[4] = last.t - 1
                /\ last.t = 0 => last.args[4] = UsizeModulus - 1
           ELSE last.args = <<>> /\ last.t = 0 /\ ~last.ok
        /\ last.ok => (t_rgstr = {} /\ last.t >= 1)

\* setup was called with t = 0 under wrapping arithmetic
C20_Witness ==
    /\ last.op = "setup"
    /\ last.t = 0
    /\ Len(last.args) = 5
    /\ last.args[4] = UsizeModulus - 1

(* ======================= concurrent registrations ======================= *)

\* C15: with spirit_register calls running side by side on the shared
\* registry, no update is lost: once every call has returned, the registry
\* holds the Token of every call that returned Some, and no step of any
\* call takes out a Token that was in the registry before it.
C15_NoLostUpdate ==
    /\ []((\A p \in Procs : calls[p].pc = "done")
              => \A p \in Procs : calls[p].ok => calls[p].tok \in t_rgstr)
    /\ [][t_rgstr \subseteq t_rgstr']_vars

\* every caller returned, two of them with different Tokens
C15_Witness ==
    /\ \A p \in Procs : calls[p].pc = "done" /\ calls[p].ok
    /\ \E p, q \in Procs : calls[p].tok # calls[q].tok

====
